---- MODULE Spec2Model ----
(***************************************************************************)
(* Huffman codec of src/huffman.py over the alphabet A-Z plus space.       *)
(*                                                                         *)
(* A Python str is a sequence of code points, a Python list a sequence     *)
(* (position p of the list is element p + 1 of the sequence), None is the  *)
(* empty tuple.  A function that can raise returns a record whose err      *)
(* field names the exception ("none" when it returns normally).            *)
(***************************************************************************)
EXTENDS Integers, Sequences, FiniteSets, TLC

VARIABLES
    filtered,   \* the text handed to count_frequencies and encode
    pc,         \* position of the pipeline
    err,        \* the exception that ended the run, "none" otherwise
    freqs,      \* result of count_frequencies / argument of build_huffman_tree
    forest,     \* build_huffman_tree: forest
    left,       \* build_huffman_tree: left
    right,      \* build_huffman_tree: right
    merges,     \* number of completed iterations of the merge loop
    tree,       \* the root build_huffman_tree returned
    table,      \* result of build_encoding_table
    encoded,    \* result of encode
    bits,       \* the bit-string handed to decode
    node,       \* decode: the cursor at the moment decode returns
    decoded     \* result of decode

vars == <<filtered, pc, err, freqs, forest, left, right, merges, tree, table,
          encoded, bits, node, decoded>>

----------------------------------------------------------------------------
(* Program constants *)

OrdA == 65
Space == 32
BitZero == 48
BitOne == 49
NumLetters == 26
TableSize == 27
SpaceIndex == 26

(* Bounds of the model *)

MaxLetters == 3
MaxLen == 4
MaxFreq == 3
MaxBits == 3

None == <<>>

----------------------------------------------------------------------------
(* Python list indexing: positions -n .. n-1 are valid, negative ones count
   from the end; anything else raises IndexError. *)

InRange(index, n) == -n <= index /\ index < n

PyPos(index, n) == IF index >= 0 THEN index + 1 ELSE n + index + 1

IsPrefix(a, b) == Len(a) <= Len(b) /\ SubSeq(b, 1, Len(a)) = a

RECURSIVE sum(_)
sum(values) ==
    IF Len(values) = 0 THEN 0 ELSE values[1] + sum(Tail(values))

max(a, b) == IF a >= b THEN a ELSE b

----------------------------------------------------------------------------
(* Node: a frequency, an optional symbol, two optional children. *)

Node(frequency, symbol) ==
    [frequency |-> frequency, symbol |-> symbol, left |-> None, right |-> None]

get_frequency(n) == n.frequency

get_symbol(n) == n.symbol

get_left(n) == n.left

get_right(n) == n.right

set_left(n, child) == [n EXCEPT !.left = child]

set_right(n, child) == [n EXCEPT !.right = child]

----------------------------------------------------------------------------
(* count_frequencies *)

RECURSIVE count_loop(_, _, _)
count_loop(input_string, pos, frequencies) ==
    IF pos > Len(input_string)
    THEN [err |-> "none", value |-> frequencies]
    ELSE LET ch == input_string[pos] IN
         IF ch # Space
         THEN LET index == ch - OrdA IN
              IF InRange(index, Len(frequencies))
              THEN count_loop(input_string, pos + 1,
                       [frequencies EXCEPT
                           ![PyPos(index, Len(frequencies))] = @ + 1])
              ELSE [err |-> "IndexError", value |-> None]
         ELSE count_loop(input_string, pos + 1, frequencies)

count_frequencies(input_string) ==
    count_loop(input_string, 1, [i \in 1..NumLetters |-> 0])

----------------------------------------------------------------------------
(* initialize_forest *)

HasFrequencyAll(frequency) == frequency >= 0

HasFrequency(frequency) == frequency > 0

space_freq_one(frequencies) == 1

space_freq_sum(frequencies) == sum(frequencies)

space_freq(frequencies) == max(sum(frequencies), 1)

RECURSIVE letter_nodes(_, _)
letter_nodes(frequencies, i) ==
    IF i >= NumLetters THEN <<>>
    ELSE (IF HasFrequency(frequencies[i + 1])
          THEN <<Node(frequencies[i + 1], <<i + OrdA>>)>>
          ELSE <<>>) \o letter_nodes(frequencies, i + 1)

initialize_forest(frequencies) ==
    Append(letter_nodes(frequencies, 0), Node(space_freq(frequencies), <<Space>>))

----------------------------------------------------------------------------
(* get_smallest *)

IsSmallerOrEqual(a, b) == a <= b

IsSmaller(a, b) == a < b

RECURSIVE smallest_scan(_, _, _)
smallest_scan(nodes, i, smallest_index) ==
    IF i >= Len(nodes) THEN smallest_index
    ELSE smallest_scan(nodes, i + 1,
             IF IsSmaller(get_frequency(nodes[i + 1]),
                          get_frequency(nodes[smallest_index + 1]))
             THEN i ELSE smallest_index)

get_smallest(nodes) ==
    IF Len(nodes) = 0
    THEN [err |-> "IndexError", node |-> None, forest |-> nodes]
    ELSE LET smallest_index == smallest_scan(nodes, 1, 0) IN
         [err |-> "none",
          node |-> nodes[smallest_index + 1],
          forest |-> SubSeq(nodes, 1, smallest_index)
                     \o SubSeq(nodes, smallest_index + 2, Len(nodes))]

----------------------------------------------------------------------------
(* build_huffman_tree: the loop condition and the parent of one merge *)

LoopConditionNonEmpty(nodes) == Len(nodes) > 0

LoopCondition(nodes) == Len(nodes) > 1

ParentFrequencyLeft(l, r) == get_frequency(l)

ParentFrequency(l, r) == get_frequency(l) + get_frequency(r)

Parent(l, r) == set_right(set_left(Node(ParentFrequency(l, r), None), l), r)

----------------------------------------------------------------------------
(* build_encoding_table *)

RightPrefixZero(prefix) == Append(prefix, BitZero)

LeftPrefix(prefix) == Append(prefix, BitZero)

RightPrefix(prefix) == Append(prefix, BitOne)

RECURSIVE traverse(_, _, _)
traverse(n, prefix, tab) ==
    IF n = None THEN [err |-> "AttributeError", value |-> None]
    ELSE IF get_symbol(n) # None
    THEN IF get_symbol(n) = <<Space>>
         THEN [err |-> "none", value |-> [tab EXCEPT ![SpaceIndex + 1] = prefix]]
         ELSE LET index == get_symbol(n)[1] - OrdA IN
              IF InRange(index, Len(tab))
              THEN [err |-> "none",
                    value |-> [tab EXCEPT ![PyPos(index, Len(tab))] = prefix]]
              ELSE [err |-> "IndexError", value |-> None]
    ELSE LET l == traverse(get_left(n), LeftPrefix(prefix), tab) IN
         IF l.err # "none" THEN l
         ELSE traverse(get_right(n), RightPrefix(prefix), l.value)

build_encoding_table(huffman_tree_root) ==
    traverse(huffman_tree_root, <<>>, [i \in 1..TableSize |-> <<>>])

----------------------------------------------------------------------------
(* encode *)

RECURSIVE encode_loop(_, _, _, _)
encode_loop(input_string, pos, encoding_table, out) ==
    IF pos > Len(input_string)
    THEN [err |-> "none", value |-> out]
    ELSE LET ch == input_string[pos] IN
         IF ch = Space
         THEN encode_loop(input_string, pos + 1, encoding_table,
                          out \o encoding_table[SpaceIndex + 1])
         ELSE LET index == ch - OrdA IN
              IF InRange(index, Len(encoding_table))
              THEN encode_loop(input_string, pos + 1, encoding_table,
                       out \o encoding_table[PyPos(index, Len(encoding_table))])
              ELSE [err |-> "IndexError", value |-> None]

encode(input_string, encoding_table) ==
    encode_loop(input_string, 1, encoding_table, <<>>)

----------------------------------------------------------------------------
(* decode *)

RECURSIVE decode_loop(_, _, _, _, _)
decode_loop(encoded_string, pos, huffman_root, cursor, result) ==
    IF pos > Len(encoded_string)
    THEN [err |-> "none", value |-> result, node |-> cursor]
    ELSE LET bit == encoded_string[pos]
             next == IF bit = BitZero THEN get_left(cursor) ELSE get_right(cursor)
         IN  IF next = None
             THEN [err |-> "AttributeError", value |-> None, node |-> next]
             ELSE IF get_symbol(next) # None
             THEN decode_loop(encoded_string, pos + 1, huffman_root, huffman_root,
                              result \o get_symbol(next))
             ELSE decode_loop(encoded_string, pos + 1, huffman_root, next, result)

decode(encoded_string, huffman_root) ==
    decode_loop(encoded_string, 1, huffman_root, huffman_root, <<>>)

----------------------------------------------------------------------------
(* Inputs *)

RECURSIVE StringsOver(_, _)
StringsOver(chars, n) ==
    IF n = 0 THEN {<<>>}
    ELSE LET shorter == StringsOver(chars, n - 1) IN
         shorter \cup {Append(s, c) : s \in {t \in shorter : Len(t) = n - 1},
                                      c \in chars}

Letters == OrdA .. (OrdA + MaxLetters - 1)

\* '!' , '@' and '[' : outside the alphabet
BadChars == {33, 64, 91}

NormalizedStrings == StringsOver(Letters \cup {Space}, MaxLen)

RawStrings == StringsOver(Letters \cup {Space} \cup BadChars, MaxLen)

BitStrings == StringsOver({BitZero, BitOne}, MaxBits)

FreqTables ==
    {[i \in 1..NumLetters |-> IF i <= MaxLetters THEN f[i] ELSE 0] :
        f \in [1..MaxLetters -> 0..MaxFreq]}

----------------------------------------------------------------------------
(* The pipeline of the test block, one action per call or loop step *)

Locals ==
    /\ err = "none"
    /\ forest = None
    /\ left = None
    /\ right = None
    /\ merges = 0
    /\ tree = None
    /\ table = None
    /\ encoded = None
    /\ bits = None
    /\ node = None
    /\ decoded = None

Init ==
    /\ Locals
    /\ \/ /\ filtered \in NormalizedStrings
          /\ freqs = None
          /\ pc = "count"
       \/ /\ filtered = <<>>
          /\ freqs \in FreqTables
          /\ pc = "init"

InitRaw ==
    /\ Locals
    /\ filtered \in RawStrings
    /\ freqs = None
    /\ pc = "count"

CountFrequencies ==
    /\ pc = "count"
    /\ LET r == count_frequencies(filtered) IN
       IF r.err = "none"
       THEN /\ freqs' = r.value
            /\ pc' = "init"
            /\ err' = err
       ELSE /\ freqs' = freqs
            /\ pc' = "failed"
            /\ err' = r.err
    /\ UNCHANGED <<filtered, forest, left, right, merges, tree, table, encoded,
                   bits, node, decoded>>

InitializeForest ==
    /\ pc = "init"
    /\ forest' = initialize_forest(freqs)
    /\ pc' = "loop"
    /\ UNCHANGED <<filtered, err, freqs, left, right, merges, tree, table,
                   encoded, bits, node, decoded>>

GetLeft ==
    /\ pc = "loop"
    /\ LoopCondition(forest)
    /\ LET r == get_smallest(forest) IN
       IF r.err = "none"
       THEN /\ left' = r.node
            /\ forest' = r.forest
            /\ pc' = "right"
            /\ err' = err
       ELSE /\ left' = left
            /\ forest' = forest
            /\ pc' = "failed"
            /\ err' = r.err
    /\ UNCHANGED <<filtered, freqs, right, merges, tree, table, encoded, bits,
                   node, decoded>>

GetRight ==
    /\ pc = "right"
    /\ LET r == get_smallest(forest) IN
       IF r.err = "none"
       THEN /\ right' = r.node
            /\ forest' = r.forest
            /\ pc' = "join"
            /\ err' = err
       ELSE /\ right' = right
            /\ forest' = forest
            /\ pc' = "failed"
            /\ err' = r.err
    /\ UNCHANGED <<filtered, freqs, left, merges, tree, table, encoded, bits,
                   node, decoded>>

Join ==
    /\ pc = "join"
    /\ forest' = Append(forest, Parent(left, right))
    /\ merges' = merges + 1
    /\ pc' = "loop"
    /\ UNCHANGED <<filtered, err, freqs, left, right, tree, table, encoded,
                   bits, node, decoded>>

ReturnRoot ==
    /\ pc = "loop"
    /\ ~LoopCondition(forest)
    /\ IF Len(forest) = 0
       THEN /\ tree' = tree
            /\ pc' = "failed"
            /\ err' = "IndexError"
       ELSE /\ tree' = forest[1]
            /\ pc' = "table"
            /\ err' = err
    /\ UNCHANGED <<filtered, freqs, forest, left, right, merges, table,
                   encoded, bits, node, decoded>>

BuildEncodingTable ==
    /\ pc = "table"
    /\ LET r == build_encoding_table(tree) IN
       IF r.err = "none"
       THEN /\ table' = r.value
            /\ pc' = "encode"
            /\ err' = err
       ELSE /\ table' = table
            /\ pc' = "failed"
            /\ err' = r.err
    /\ UNCHANGED <<filtered, freqs, forest, left, right, merges, tree,
                   encoded, bits, node, decoded>>

Encode ==
    /\ pc = "encode"
    /\ LET r == encode(filtered, table) IN
       IF r.err = "none"
       THEN /\ encoded' = r.value
            /\ pc' = "decode"
            /\ err' = err
       ELSE /\ encoded' = encoded
            /\ pc' = "failed"
            /\ err' = r.err
    /\ UNCHANGED <<filtered, freqs, forest, left, right, merges, tree, table,
                   bits, node, decoded>>

DecodeCall(b) ==
    /\ pc = "decode"
    /\ bits' = b
    /\ LET r == decode(b, tree) IN
       IF r.err = "none"
       THEN /\ decoded' = r.value
            /\ node' = r.node
            /\ pc' = "done"
            /\ err' = err
       ELSE /\ decoded' = decoded
            /\ node' = node
            /\ pc' = "failed"
            /\ err' = r.err
    /\ UNCHANGED <<filtered, freqs, forest, left, right, merges, tree, table,
                   encoded>>

Decode == DecodeCall(encoded)

DecodeBits == \E b \in BitStrings : DecodeCall(b)

Next ==
    \/ CountFrequencies
    \/ InitializeForest
    \/ GetLeft
    \/ GetRight
    \/ Join
    \/ ReturnRoot
    \/ BuildEncodingTable
    \/ Encode
    \/ Decode
    \/ DecodeBits

Spec == Init /\ [][Next]_vars

SpecRaw == InitRaw /\ [][Next]_vars

FairSpec == Init /\ [][Next]_vars /\ WF_vars(Next)

----------------------------------------------------------------------------
(* Vocabulary of the properties *)

Alphabet == (OrdA .. (OrdA + NumLetters - 1)) \cup {Space}

IsNormalized(s) == \A p \in 1..Len(s) : s[p] \in Alphabet

IsLeaf(n) == n # None /\ n.symbol # None /\ n.left = None /\ n.right = None

IsSpaceLeaf(n) == IsLeaf(n) /\ n.symbol = <<Space>>

RECURSIVE WellFormed(_)
WellFormed(n) ==
    /\ n # None
    /\ \/ IsLeaf(n)
       \/ /\ n.symbol = None
          /\ n.left # None
          /\ n.right # None
          /\ WellFormed(n.left)
          /\ WellFormed(n.right)

\* the leaves of a tree, left to right
RECURSIVE LeafSeq(_)
LeafSeq(n) ==
    IF n = None THEN <<>>
    ELSE IF n.symbol # None THEN <<n>>
    ELSE LeafSeq(n.left) \o LeafSeq(n.right)

LeavesWith(n, symbol) ==
    {p \in 1..Len(LeafSeq(n)) : LeafSeq(n)[p].symbol = symbol}

RECURSIVE LeafWeightSum(_)
LeafWeightSum(n) ==
    IF n = None THEN 0
    ELSE IF n.symbol # None THEN n.frequency
    ELSE LeafWeightSum(n.left) + LeafWeightSum(n.right)

\* letters present in a frequency table, as positions of the table
PresentLetters(frequencies) ==
    {i \in 1..NumLetters : frequencies[i] > 0}

\* table positions of the symbols that are leaves of the tree
LeafSlots(frequencies) == PresentLetters(frequencies) \cup {SpaceIndex + 1}

Total(frequencies) == sum(frequencies)

MinWeight(nodes) ==
    CHOOSE w \in {nodes[p].frequency : p \in 1..Len(nodes)} :
        \A q \in 1..Len(nodes) : w <= nodes[q].frequency

FirstMinimum(nodes) ==
    CHOOSE p \in 1..Len(nodes) :
        /\ nodes[p].frequency = MinWeight(nodes)
        /\ \A q \in 1..(p - 1) : nodes[q].frequency # MinWeight(nodes)

Without(nodes, p) ==
    [q \in 1..(Len(nodes) - 1) |-> IF q < p THEN nodes[q] ELSE nodes[q + 1]]

----------------------------------------------------------------------------
\* C1: round-trip law. For every normalized string s, with
\* f = count_frequencies(s), t = build_huffman_tree(f) and
\* tab = build_encoding_table(t), decode(encode(s, tab), t) equals s.
C1_RoundTrip ==
    (/\ pc = "done"
     /\ bits = encoded
     /\ IsNormalized(filtered)
     /\ freqs = count_frequencies(filtered).value)
        => decoded = filtered

\* C2: prefix-free law. In the built table, for every pair of distinct
\* symbols that are leaves of the tree, neither code is a prefix of the other.
C2_PrefixFree ==
    table # None =>
        \A i \in LeafSlots(freqs) : \A j \in LeafSlots(freqs) :
            i # j => ~IsPrefix(table[i], table[j])

C2_Witness ==
    /\ table # None
    /\ Cardinality(LeafSlots(freqs)) >= 4
    /\ \E i \in LeafSlots(freqs) : Len(table[i]) >= 3

\* C3: malformed bit-string. When the bit-string ends mid-path, decode fails:
\* whenever decode returns normally its cursor is back at the root.
C3_MidPathFails ==
    pc = "done" => node = tree

\* C4: alphabet violation. count_frequencies and encode return normally only
\* on inputs whose characters all lie in {A-Z, space}.
C4_AlphabetViolationRejected ==
    (freqs # None \/ encoded # None) => IsNormalized(filtered)

\* C5: weight invariant. The root's weight equals the sum of the weights of
\* all leaves of the tree, and equals sum(f) + max(sum(f), 1).
C5_RootWeight ==
    tree # None =>
        /\ tree.frequency = LeafWeightSum(tree)
        /\ tree.frequency =
               Total(freqs) + (IF Total(freqs) >= 1 THEN Total(freqs) ELSE 1)

C5_Witness ==
    /\ tree # None
    /\ merges >= 3
    /\ Total(freqs) >= 4

\* C6: stable minimum selection. On every non-empty forest get_smallest
\* returns the node at the lowest position among those of minimum weight and
\* leaves the other nodes in their previous order; in every merge
\* left.weight <= right.weight <= the weight of every node left in the forest.
C6_StableMinimum ==
    /\ (forest # None /\ Len(forest) > 0) =>
           LET r == get_smallest(forest)
               p == FirstMinimum(forest)
           IN  /\ r.err = "none"
               /\ r.node = forest[p]
               /\ r.forest = Without(forest, p)
    /\ pc = "right" =>
           \A q \in 1..Len(forest) : left.frequency <= forest[q].frequency
    /\ pc = "join" =>
           /\ left.frequency <= right.frequency
           /\ \A q \in 1..Len(forest) : right.frequency <= forest[q].frequency

\* the selected node was not at the front and ties with a node left behind
C6_Witness ==
    /\ pc = "right"
    /\ Len(forest) >= 3
    /\ forest[1].frequency > left.frequency
    /\ left.frequency = MinWeight(forest)

\* C7: space placement. When some count is non-zero, the space leaf is
\* selected only in the final merge, its code has length exactly 1 and no
\* leaf symbol has a shorter code.
C7_SpacePlacement ==
    (freqs # None /\ Total(freqs) > 0) =>
        /\ pc = "right" => (IsSpaceLeaf(left) => Len(forest) = 1)
        /\ pc = "join" =>
               ((IsSpaceLeaf(left) \/ IsSpaceLeaf(right)) => Len(forest) = 0)
        /\ tree # None =>
               (IsSpaceLeaf(tree.left) \/ IsSpaceLeaf(tree.right))
        /\ table # None =>
               /\ Len(table[SpaceIndex + 1]) = 1
               /\ \A i \in LeafSlots(freqs) :
                      Len(table[i]) >= Len(table[SpaceIndex + 1])

C7_Witness ==
    /\ table # None
    /\ Cardinality(PresentLetters(freqs)) >= 3
    /\ \E i \in PresentLetters(freqs) : freqs[i] >= 2
    /\ Len(table[SpaceIndex + 1]) = 1

\* C8: degenerate tree. For the all-zero table the forest is exactly the
\* space leaf of weight 1, the tree is that leaf with no merge performed, and
\* space's code is the empty bit-string.
C8_Degenerate ==
    (freqs # None /\ \A i \in 1..NumLetters : freqs[i] = 0) =>
        /\ forest # None => forest = <<Node(1, <<Space>>)>>
        /\ merges = 0
        /\ pc \notin {"right", "join"}
        /\ tree = None => err = "none"
        /\ pc \in {"table", "encode", "decode", "done"} =>
               tree = Node(1, <<Space>>)
        /\ pc \in {"encode", "decode", "done"} =>
               table[SpaceIndex + 1] = <<>>

C8_Witness ==
    /\ freqs # None
    /\ \A i \in 1..NumLetters : freqs[i] = 0
    /\ pc = "encode"
    /\ table[SpaceIndex + 1] = <<>>
    /\ tree.symbol = <<Space>>

\* C9: termination of tree construction. The forest is never empty when
\* get_smallest is called, every iteration removes two nodes and appends one
\* internal node weighing their sum, a forest of k nodes is reduced to one
\* node by exactly k - 1 merges, and the loop, once entered, is left.
C9_Progress ==
    forest # None =>
        LET k == Cardinality(PresentLetters(freqs)) + 1 IN
        /\ tree = None => err = "none"
        /\ pc = "loop" => (Len(forest) = k - merges /\ Len(forest) >= 1)
        /\ pc = "right" => (Len(forest) = k - merges - 1 /\ Len(forest) >= 1)
        /\ pc = "join" => Len(forest) = k - merges - 2
        /\ tree # None => (merges = k - 1 /\ Len(forest) = 1)

C9_Iteration ==
    (pc = "join" /\ pc' = "loop") =>
        /\ Len(forest') = Len(forest) + 1
        /\ SubSeq(forest', 1, Len(forest)) = forest
        /\ forest'[Len(forest')].symbol = None
        /\ forest'[Len(forest')].left = left
        /\ forest'[Len(forest')].right = right
        /\ forest'[Len(forest')].frequency = left.frequency + right.frequency

C9_Termination ==
    /\ []C9_Progress
    /\ [][C9_Iteration]_vars
    /\ (pc = "loop") ~> (pc = "table")

C9_Witness ==
    /\ pc = "table"
    /\ merges = 3
    /\ Len(forest) = 1

\* C10: tree shape. Every node of the tree is a leaf (symbol, no children) or
\* an internal node (no symbol, two children); the leaves are one leaf per
\* letter i with f[i] > 0, of weight f[i], plus one space leaf, and no others.
C10_TreeShape ==
    tree # None =>
        /\ WellFormed(tree)
        /\ Len(LeafSeq(tree)) = Cardinality(PresentLetters(freqs)) + 1
        /\ Cardinality(LeavesWith(tree, <<Space>>)) = 1
        /\ \A i \in 1..NumLetters :
               LET here == LeavesWith(tree, <<OrdA + i - 1>>) IN
               IF freqs[i] > 0
               THEN /\ Cardinality(here) = 1
                    /\ \A p \in here : LeafSeq(tree)[p].frequency = freqs[i]
               ELSE here = {}

C10_Witness ==
    /\ tree # None
    /\ Cardinality(PresentLetters(freqs)) = 2
    /\ freqs[2] = 0
    /\ tree.symbol = None

====
